---- MODULE Spec2Model ----
(***************************************************************************)
(* Model of the 2D polygon builder of soypat/glgl (math/ms2/polygon.go):   *)
(* the control-point sequence of a PolygonBuilder, the builder API that    *)
(* mutates it and the boundary generator AppendVecs that walks it.         *)
(*                                                                         *)
(* Numbers.  Coordinates and radii are float32 in the code.  In the model  *)
(* a coordinate is an integer that counts halves (1 stands for 0.5) and a  *)
(* radius is an integer that counts 1/FP of a half, so that the radius     *)
(* size*sqrtHalf of a chamfer has a value.  Norms are kept as their        *)
(* squares (Norm2) and compared exactly; the quantities that need a square *)
(* root or a trigonometric function (the corner angle theta, the tangent   *)
(* distance d of a fillet and its tangent points) are computed in fixed    *)
(* point with resolution 1/FP.  The positions the model draws from are     *)
(* chosen so that no comparison of the code falls within that resolution   *)
(* of its threshold.  A vertex whose coordinates the code computes by      *)
(* rotation or scaling is kept as a term that names its inputs, with a     *)
(* flag telling whether the float computation yields NaN.                  *)
(***************************************************************************)
EXTENDS Integers, Sequences, FiniteSets, TLC

\* ---------------------------------------------------------------- bounds
MaxPts == 3        \* most control points the builder holds
MaxFacets == 2     \* largest facets argument given to Smooth and Arc
MaxRadius == 3     \* largest radius argument of Smooth, in halves
MaxArcRadius == 1  \* largest |radius| argument of Arc, in halves
MaxSize == 1       \* largest size argument of Chamfer, in halves
MaxWraps == 1      \* largest multiple of 2^32 in a facets argument
MaxN == 4          \* largest side count given to Nagon and NagonSmoothed
MaxDist == 4       \* largest |centerDistance| given to Nagon, in halves
MaxThreads == 2    \* threads that call AppendVecs at the same time
MaxSquareFacets == 3 \* largest facet count of the rounded square
MaxLines == 3      \* most lines of a file given to ParseCombined
MaxF == 2          \* largest |f| given to CopyOrientation

\* ------------------------------------------------------ program constants
FP == 1000             \* fixed-point denominator standing for float32
arcTolNum == 1         \* arcTol = 5e-1 = arcTolNum / arcTolDen
arcTolDen == 2         \* lengths count 1/arcTolDen, so arcTol is arcTolNum
cosArcTol == 877       \* cos(arcTol) * FP, arcTol taken as an angle
sqrtHalf == 707        \* math.Sqrt2 / 2 * FP
TwoTo24 == 16777216    \* float32 has a significand of 24 bits

\* ------------------------------------------------------------ input sets
\* Positions of control points, in halves.
Positions == {<<0, 0>>, <<1, 0>>, <<2, 0>>, <<1, 3>>}
\* The positions the API specification gives to Add and AddXY.
ApiPositions == {<<0, 0>>, <<1, 3>>}
\* Deltas given to AddRelative.
Deltas == {<<1, 0>>, <<0, 0>>}
\* Arguments of Smooth, Arc and Chamfer, the ones that are no-ops included.
ApiRadiusArgs == {0 - FP, 0, FP}
\* A Go int (64 bits) is hi * 2^32 + lo, lo in the int32 range.
GoInt(hi, lo) == [hi |-> hi, lo |-> lo]
Small(n) == GoInt(0, n)
FacetArgs == {Small(f) : f \in 0..MaxFacets}
SizeArgs == 0..MaxSize
\* A vertex the caller's buffer may already hold.
Pt(v) == [k |-> "pt", v |-> v, at |-> <<>>, r |-> 0, n |-> 0, j |-> 0, nan |-> FALSE]
InBufs == {<<>>, <<Pt(<<7, 7>>)>>}

\* ------------------------------------------------------------ Vec algebra
\* Sub: vec.go Sub.
Sub(p, q) == <<p[1] - q[1], p[2] - q[2]>>
\* VecAdd: vec.go Add (the builder method Add is the action Add below).
VecAdd(p, q) == <<p[1] + q[1], p[2] + q[2]>>
Dot(p, q) == p[1] * q[1] + p[2] * q[2]
Norm2(p) == p[1] * p[1] + p[2] * p[2]
Abs(x) == IF x < 0 THEN 0 - x ELSE x

RECURSIVE SqrtBetween(_, _, _)
SqrtBetween(n, lo, hi) ==
    IF lo >= hi THEN lo
    ELSE LET mid == (lo + hi + 1) \div 2
         IN  IF mid * mid <= n THEN SqrtBetween(n, mid, hi)
             ELSE SqrtBetween(n, lo, mid - 1)
\* The square root rounded down, for 0 <= n < 46340^2.
ISqrt(n) == SqrtBetween(n, 0, 46339)
\* Norm in fixed point: Norm(p) * FP.
NormFP(p) == ISqrt(Norm2(p) * FP * FP)

\* math.Copysign(f, s): the magnitude of f with the sign of s; a product s
\* that is zero here is the zero f itself, whose sign is of no account.
Copysign(f, s) == IF s < 0 THEN 0 - Abs(f) ELSE Abs(f)

\* ------------------------------------------------------- control points
\* PolygonControlPoint{v: v}: a sharp point.
ControlPoint(v) == [v |-> v, radius |-> 0, facets |-> 0]
\* facets > 0 on a Go int.
Positive(n) == n.hi > 0 \/ (n.hi = 0 /\ n.lo > 0)
\* The conversion int32(facets) keeps the low 32 bits.
int32(n) == n.lo
MinInt32 == (0 - 2147483647) - 1
\* Negation of an int32, which wraps at the smallest value.
neg32(x) == IF x = MinInt32 THEN x ELSE 0 - x
isSmoothed(cp) == cp.facets > 0 /\ cp.radius > 0
isArc(cp) == cp.facets < 0 /\ cp.radius # 0

\* Mutant: Smooth accepts every radius that is not negative.
SmoothCPZeroRadius(cp, radius, facets) ==
    IF radius >= 0 /\ Positive(facets)
    THEN [cp EXCEPT !.radius = radius, !.facets = int32(facets)]
    ELSE cp
\* Smooth applied to a control point value.
SmoothCP(cp, radius, facets) ==
    IF radius > 0 /\ Positive(facets)
    THEN [cp EXCEPT !.radius = radius, !.facets = int32(facets)]
    ELSE cp
\* Mutant: Arc stores the facet count and leaves the radius as it was.
ArcCPKeepsRadius(cp, radius, facets) ==
    IF radius # 0 /\ Positive(facets)
    THEN [cp EXCEPT !.facets = neg32(int32(facets))]
    ELSE cp
\* Arc applied to a control point value.
ArcCP(cp, radius, facets) ==
    IF radius # 0 /\ Positive(facets)
    THEN [cp EXCEPT !.radius = radius, !.facets = neg32(int32(facets))]
    ELSE cp
\* Mutant: Chamfer asks for two facets.
ChamferCPTwoFacets(cp, size) == SmoothCP(cp, size * sqrtHalf, Small(2))
\* Chamfer applied to a control point value.
ChamferCP(cp, size) == SmoothCP(cp, size * sqrtHalf, Small(1))

\* ----------------------------------------------------------------- errors
NoErr == [msg |-> "nil", idx |-> 0 - 1]
errTooFew == [msg |-> "too few vertices", idx |-> 0 - 1]
errLargeSmoothRadius == "smoothing radius too large"
errSmallArcRadius == "arc radius too small"
errBadSmooth == "badly conditioned smoothing"
errCPEqualToPrev == "equal to previous control point"
cpAtIdxErr(idx, msg) == [msg |-> msg, idx |-> idx]

\* ------------------------------------------------------------ arc kernel
\* arcCenterFrom2points: the error, and whether center and angle are NaN.
\* chordLen - maxChordLen > arcTol is compared on the squares.
\* Mutant: perp takes its signs from the radius alone.
arcPerpBySign(V12, r) == <<Copysign(V12[2], 0 - r), Copysign(V12[1], r)>>
\* perp: V12 turned by a quarter, to the side the sign of the radius selects.
arcPerp(V12, r) == <<Copysign(V12[2], (0 - V12[2]) * r), Copysign(V12[1], V12[1] * r)>>

\* Mutant: a chord as long as the diameter is rejected too.
arcCenterFrom2pointsStrict(p1, p2, r) ==
    LET rabs == Abs(r)
        V12 == Sub(p2, p1)
        chord2 == Norm2(V12)
    IN  IF chord2 * FP * FP >= 4 * rabs * rabs
        THEN [err |-> errSmallArcRadius, nan |-> FALSE, perp |-> <<0, 0>>, sweep |-> 0]
        ELSE [err |-> "nil", nan |-> chord2 = 0, perp |-> arcPerp(V12, r),
              sweep |-> Copysign(1, r)]

arcCenterFrom2points(p1, p2, r) ==
    LET rabs == Abs(r)
        V12 == Sub(p2, p1)
        chord2 == Norm2(V12)
        limit == 2 * rabs + arcTolNum * FP
    IN  IF chord2 * FP * FP > limit * limit
        THEN [err |-> errSmallArcRadius, nan |-> FALSE, perp |-> <<0, 0>>, sweep |-> 0]
        ELSE [err |-> "nil",
              \* asin of a ratio above 1, or 0/tan(0) for an empty chord.
              nan |-> chord2 * FP * FP > 4 * rabs * rabs \/ chord2 = 0,
              \* the center is chordCenter + perp * (x / chordLen), x > 0
              perp |-> arcPerp(V12, r),
              \* math.Copysign(2 * chordThetaDiv2, r), as a sign
              sweep |-> Copysign(1, r)]

\* Mutant: the arc generator also emits the end point of the sweep.
appendArcWithCenterToEnd(dst, kind, at, r, nan, facets) ==
    dst \o [j \in 1..facets |->
              [k |-> kind, v |-> <<0, 0>>, at |-> at, r |-> r, n |-> facets,
               j |-> j, nan |-> nan]]

\* appendArcWithCenter: facets-1 rotated points, each a term.
appendArcWithCenter(dst, kind, at, r, nan, facets) ==
    dst \o [j \in 1..(facets - 1) |->
              [k |-> kind, v |-> <<0, 0>>, at |-> at, r |-> r, n |-> facets,
               j |-> j, nan |-> nan]]

appendArc2points(dst, p1, p2, r, facets) ==
    IF facets <= 1 THEN [dst |-> dst, err |-> "nil"]
    ELSE LET c == arcCenterFrom2points(p1, p2, r)
         IN  IF c.err # "nil" THEN [dst |-> dst, err |-> c.err]
             ELSE [dst |-> appendArcWithCenter(dst, "arc", <<p1, p2>>, r, c.nan, facets),
                   err |-> "nil"]

\* ----------------------------------------------------------- fillet kernel
\* Scale(1/norm, V) in fixed point: the unit vector times FP.
UnitFP(V) == LET n == NormFP(V) IN <<(V[1] * FP * FP) \div n, (V[2] * FP * FP) \div n>>
\* Dot of two unit vectors, the cosine of theta, times FP.
cosTheta(V10, V12) == Dot(UnitFP(V10), UnitFP(V12)) \div FP
\* Sincos(0.5 * theta) by the half-angle formulas, times FP.
sinHalf(c) == ISqrt((FP * (FP - c)) \div 2)
cosHalf(c) == ISqrt((FP * (FP + c)) \div 2)
\* d := r / (sint / cost), times FP.
tangentDist(r, c) == (r * cosHalf(c)) \div sinHalf(c)
\* Add(p1, Scale(d, V)) for a unit vector V, times FP.
tangentPoint(p1, d, U) == <<p1[1] * FP + (d * U[1]) \div FP, p1[2] * FP + (d * U[2]) \div FP>>
\* EqualElem(a, b, tol) with b and tol in fixed point.
EqualElem(a, b, tol) == Abs(a[1] * FP - b[1]) <= tol /\ Abs(a[2] * FP - b[2]) <= tol
\* r - norm > arcTol, compared on the squares.
\* Mutant: the radius check has no tolerance.
radiusExceedsEdge(r, V) == r > 0 /\ Norm2(V) * FP * FP < r * r

radiusExceeds(r, V) ==
    LET m == r - arcTolNum * FP IN m > 0 /\ Norm2(V) * FP * FP < m * m

\* The float32 unit vector u of V has Dot(u, u) = 1.00000012: V is one of these
\* up to the signs of its components (components within 4 halves), or lies
\* on SteepLine.
LongUnit(V) ==
    <<Abs(V[1]), Abs(V[2])>> \in {<<1, 4>>, <<4, 1>>, <<2, 3>>, <<3, 2>>, <<3, 3>>}
\* Multiples of (1, 4): the unit vectors of any two of them have a Dot of
\* magnitude 1.00000012.
SteepLine == {<<k, 4 * k>> : k \in {0 - 3, 0 - 2, 0 - 1, 1, 2, 3}}
\* math.Acos(Dot(V10, V12)) on the normalized vectors is NaN: rounding took
\* the dot product of two parallel unit vectors beyond 1 in magnitude.
acosNaN(V10, V12) ==
    \/ LongUnit(V10) /\ (V12 = V10 \/ V12 = <<0 - V10[1], 0 - V10[2]>>)
    \/ V10 \in SteepLine /\ V12 \in SteepLine
Tangent(kind, at, r) ==
    [k |-> kind, v |-> <<0, 0>>, at |-> at, r |-> r, n |-> 0, j |-> 0, nan |-> FALSE]
\* A tangent point computed from a NaN angle.
TangentNaN(kind, at, r) == [Tangent(kind, at, r) EXCEPT !.nan = TRUE]

\* Mutant: the caps compare each tangent point with the neighbour on the
\* other side of the corner.
appendSmoothedCornerSwapped(dst, p0, p1, p2, r, facets) ==
    LET V10 == Sub(p0, p1)
        V12 == Sub(p2, p1)
    IN  IF facets <= 1 THEN [dst |-> dst, err |-> "nil"]
        ELSE IF radiusExceeds(r, V10) \/ radiusExceeds(r, V12)
        THEN [dst |-> dst, err |-> errLargeSmoothRadius]
        ELSE IF Norm2(V10) = 0 \/ Norm2(V12) = 0
        THEN [dst |-> dst, err |-> errBadSmooth]
        ELSE IF acosNaN(V10, V12)
        THEN \* theta is NaN: no comparison with it holds, every vertex is NaN.
             [dst |-> appendArcWithCenter(dst \o <<TangentNaN("start", <<p0, p1, p2>>, r)>>,
                                          "fillet", <<p0, p1, p2>>, r, TRUE, facets)
                         \o <<TangentNaN("end", <<p0, p1, p2>>, r)>>,
              err |-> "nil"]
        ELSE LET c == cosTheta(V10, V12)
             IN  IF c > cosArcTol THEN [dst |-> dst, err |-> errBadSmooth]
                 ELSE IF c < 0 - cosArcTol THEN [dst |-> dst, err |-> errBadSmooth]
                 ELSE LET d == tangentDist(r, c)
                          start == tangentPoint(p1, d, UnitFP(V10))
                          end == tangentPoint(p1, d, UnitFP(V12))
                          at == <<p0, p1, p2>>
                          capStart == IF EqualElem(p2, start, (arcTolNum * NormFP(V10)) \div arcTolDen)
                                      THEN <<>> ELSE <<Tangent("start", at, r)>>
                          capEnd == IF EqualElem(p0, end, (arcTolNum * NormFP(V12)) \div arcTolDen)
                                    THEN <<>> ELSE <<Tangent("end", at, r)>>
                      IN  [dst |-> appendArcWithCenter(dst \o capStart, "fillet", at, r, FALSE, facets)
                                      \o capEnd,
                           err |-> "nil"]
\* Mutant: the coincidence of a neighbour is looked at before the radius.
appendSmoothedCornerZeroFirst(dst, p0, p1, p2, r, facets) ==
    LET V10 == Sub(p0, p1)
        V12 == Sub(p2, p1)
    IN  IF facets <= 1 THEN [dst |-> dst, err |-> "nil"]
        ELSE IF Norm2(V10) = 0 \/ Norm2(V12) = 0
        THEN [dst |-> dst, err |-> errBadSmooth]
        ELSE IF radiusExceeds(r, V10) \/ radiusExceeds(r, V12)
        THEN [dst |-> dst, err |-> errLargeSmoothRadius]
        ELSE IF acosNaN(V10, V12)
        THEN \* theta is NaN: no comparison with it holds, every vertex is NaN.
             [dst |-> appendArcWithCenter(dst \o <<TangentNaN("start", <<p0, p1, p2>>, r)>>,
                                          "fillet", <<p0, p1, p2>>, r, TRUE, facets)
                         \o <<TangentNaN("end", <<p0, p1, p2>>, r)>>,
              err |-> "nil"]
        ELSE LET c == cosTheta(V10, V12)
             IN  IF c > cosArcTol THEN [dst |-> dst, err |-> errBadSmooth]
                 ELSE IF c < 0 - cosArcTol THEN [dst |-> dst, err |-> errBadSmooth]
                 ELSE LET d == tangentDist(r, c)
                          start == tangentPoint(p1, d, UnitFP(V10))
                          end == tangentPoint(p1, d, UnitFP(V12))
                          at == <<p0, p1, p2>>
                          capStart == IF EqualElem(p0, start, (arcTolNum * NormFP(V10)) \div arcTolDen)
                                      THEN <<>> ELSE <<Tangent("start", at, r)>>
                          capEnd == IF EqualElem(p2, end, (arcTolNum * NormFP(V12)) \div arcTolDen)
                                    THEN <<>> ELSE <<Tangent("end", at, r)>>
                      IN  [dst |-> appendArcWithCenter(dst \o capStart, "fillet", at, r, FALSE, facets)
                                      \o capEnd,
                           err |-> "nil"]
appendSmoothedCorner(dst, p0, p1, p2, r, facets) ==
    LET V10 == Sub(p0, p1)
        V12 == Sub(p2, p1)
    IN  IF facets <= 1 THEN [dst |-> dst, err |-> "nil"]
        ELSE IF radiusExceeds(r, V10) \/ radiusExceeds(r, V12)
        THEN [dst |-> dst, err |-> errLargeSmoothRadius]
        ELSE IF Norm2(V10) = 0 \/ Norm2(V12) = 0
        THEN [dst |-> dst, err |-> errBadSmooth]
        ELSE IF acosNaN(V10, V12)
        THEN \* theta is NaN: no comparison with it holds, every vertex is NaN.
             [dst |-> appendArcWithCenter(dst \o <<TangentNaN("start", <<p0, p1, p2>>, r)>>,
                                          "fillet", <<p0, p1, p2>>, r, TRUE, facets)
                         \o <<TangentNaN("end", <<p0, p1, p2>>, r)>>,
              err |-> "nil"]
        ELSE LET c == cosTheta(V10, V12)
             IN  IF c > cosArcTol THEN [dst |-> dst, err |-> errBadSmooth]
                 ELSE IF c < 0 - cosArcTol THEN [dst |-> dst, err |-> errBadSmooth]
                 ELSE LET d == tangentDist(r, c)
                          start == tangentPoint(p1, d, UnitFP(V10))
                          end == tangentPoint(p1, d, UnitFP(V12))
                          at == <<p0, p1, p2>>
                          capStart == IF EqualElem(p0, start, (arcTolNum * NormFP(V10)) \div arcTolDen)
                                      THEN <<>> ELSE <<Tangent("start", at, r)>>
                          capEnd == IF EqualElem(p2, end, (arcTolNum * NormFP(V12)) \div arcTolDen)
                                    THEN <<>> ELSE <<Tangent("end", at, r)>>
                      IN  [dst |-> appendArcWithCenter(dst \o capStart, "fillet", at, r, FALSE, facets)
                                      \o capEnd,
                           err |-> "nil"]

\* ------------------------------------------------------------------ state
VARIABLES
    verts,   \* PolygonBuilder.verts: the control points
    ref,     \* the positions a reference stack holds after the same calls
    pc,      \* where the caller is: "idle", in AppendVecs ("loop"), or at its return ("ret")
    buf0,    \* the buffer the caller handed to AppendVecs
    buf,     \* AppendVecs: buf
    i,       \* AppendVecs: the loop index
    prev,    \* AppendVecs: prev
    err,     \* AppendVecs: the error returned
    last,    \* the result of the call before this one, when the caller repeats the call
    call,    \* the last call made through a handle: its arguments and the point before it
    thr,     \* the locals of AppendVecs in each of the threads that call it concurrently
    parse,   \* ParseCombined: the lines left to scan, its locals and its result
    mem      \* the backing arrays of p.verts and the pointers Add has returned

vars == <<verts, ref, pc, buf0, buf, i, prev, err, last, call, thr, parse, mem>>
walk == <<pc, buf0, buf, i, prev, err, last, thr, parse, mem>>

NoPoint == ControlPoint(<<0, 0>>)
NoLast == [set |-> FALSE, buf |-> <<>>, err |-> NoErr]
Threads == 1..MaxThreads
\* The shader kinds of ParseCombined, and the ShaderSource it returns.
shaderNone == 0
shaderVertex == 1
shaderFragment == 2
shaderCompute == 3
shaderHeader == 4
NoSource == [Vertex |-> <<>>, Fragment |-> <<>>, Compute |-> <<>>, Include |-> <<>>]
NoParse ==
    [pc |-> "idle", file |-> <<>>, lines |-> <<>>, currentShader |-> shaderNone,
     buffers |-> [k \in shaderNone..shaderHeader |-> <<>>], ss |-> NoSource, err |-> "nil"]
\* The memory behind the builder: the arrays allocated for p.verts so far, each
\* as long as its capacity; cur, the array p.verts points into (0 for the
\* nil slice) and len, its length; handles, the pointers Add has returned in
\* the order of the calls, each an array and an index into it.
NoMem == [arrays |-> <<>>, cur |-> 0, len |-> 0, handles |-> <<>>]
IdleThread ==
    [pc |-> "idle", buf0 |-> <<>>, buf |-> <<>>, i |-> 0, prev |-> NoPoint, err |-> NoErr]
Idle ==
    /\ pc = "idle" /\ buf0 = <<>> /\ buf = <<>> /\ i = 0
    /\ prev = NoPoint /\ err = NoErr /\ last = NoLast
    /\ thr = [t \in Threads |-> IdleThread]
    /\ parse = NoParse
    /\ mem = NoMem

\* No result of arcCenterFrom2points.
NoArc == [err |-> "nil", nan |-> FALSE, perp |-> <<0, 0>>, sweep |-> 0]
NoCall ==
    [op |-> "none", h |-> 0, radius |-> 0, facets |-> Small(0), was |-> NoPoint,
     n |-> 0, d |-> 0, held |-> <<>>, ret |-> FALSE, offset |-> <<0, 0>>, arc |-> NoArc, f |-> 0, out |-> 0]
Called(op, h, radius, facets) ==
    [op |-> op, h |-> h, radius |-> radius, facets |-> facets, was |-> verts[h],
     n |-> 0, d |-> 0, held |-> <<>>, ret |-> FALSE, offset |-> <<0, 0>>, arc |-> NoArc, f |-> 0, out |-> 0]
\* A call of Nagon or NagonSmoothed: its arguments and what the builder held.
NagonCalled(op, n, d, facets, radius) ==
    [op |-> op, h |-> 0, radius |-> radius, facets |-> facets, was |-> NoPoint,
     n |-> n, d |-> d, held |-> verts, ret |-> FALSE, offset |-> <<0, 0>>, arc |-> NoArc, f |-> 0, out |-> 0]

Init == verts = <<>> /\ ref = <<>> /\ Idle /\ call = NoCall

\* ------------------------------------------------------------ builder API
\* PolygonBuilder.last: the index of the last point, 0 for nil.
lastIdx == Len(verts)

Add(v) ==
    /\ pc = "idle" /\ Len(verts) < MaxPts
    /\ verts' = Append(verts, ControlPoint(v))
    /\ ref' = Append(ref, v)
    /\ UNCHANGED walk

AddXY(x, y) ==
    /\ pc = "idle" /\ Len(verts) < MaxPts
    /\ verts' = Append(verts, ControlPoint(<<x, y>>))
    /\ ref' = Append(ref, <<x, y>>)
    /\ UNCHANGED walk

\* Mutant: AddRelative places the point at the delta itself.
AddRelativeFromOrigin(v) ==
    /\ pc = "idle" /\ Len(verts) < MaxPts
    /\ verts' = Append(verts, ControlPoint(v))
    /\ ref' = Append(ref, IF Len(ref) = 0 THEN v ELSE VecAdd(ref[Len(ref)], v))
    /\ UNCHANGED walk

AddRelative(v) ==
    /\ pc = "idle" /\ Len(verts) < MaxPts
    /\ verts' = IF lastIdx = 0
                THEN Append(verts, ControlPoint(v))
                ELSE Append(verts, ControlPoint(VecAdd(verts[lastIdx].v, v)))
    /\ ref' = Append(ref, IF Len(ref) = 0 THEN v ELSE VecAdd(ref[Len(ref)], v))
    /\ UNCHANGED walk

DropLast ==
    /\ pc = "idle"
    /\ verts' = IF Len(verts) > 0 THEN SubSeq(verts, 1, Len(verts) - 1) ELSE verts
    /\ ref' = IF Len(ref) > 0 THEN SubSeq(ref, 1, Len(ref) - 1) ELSE ref
    /\ UNCHANGED walk

Reset ==
    /\ pc = "idle"
    /\ verts' = SubSeq(verts, 1, 0)
    /\ ref' = <<>>
    /\ UNCHANGED walk

\* Smooth, Arc and Chamfer through the handle Add* returned for point h.
Smooth(h, radius, facets) ==
    /\ pc = "idle" /\ h \in 1..Len(verts)
    /\ verts' = [verts EXCEPT ![h] = SmoothCP(verts[h], radius, facets)]
    /\ UNCHANGED <<ref, walk>>

Arc(h, radius, facets) ==
    /\ pc = "idle" /\ h \in 1..Len(verts)
    /\ verts' = [verts EXCEPT ![h] = ArcCP(verts[h], radius, facets)]
    /\ UNCHANGED <<ref, walk>>

Chamfer(h, size) ==
    /\ pc = "idle" /\ h \in 1..Len(verts)
    /\ verts' = [verts EXCEPT ![h] = ChamferCP(verts[h], size)]
    /\ UNCHANGED <<ref, walk>>

\* --------------------------------------------------------- regular polygons
\* math.Sincos(2*pi/n), times FP.
cosTurn(n) ==
    CASE n = 3 -> 0 - 500 [] n = 4 -> 0 [] n = 5 -> 309 [] n = 6 -> 500
      [] n = 7 -> 623 [] OTHER -> 707
sinTurn(n) ==
    CASE n = 3 -> 866 [] n = 4 -> 1000 [] n = 5 -> 951 [] n = 6 -> 866
      [] n = 7 -> 782 [] OTHER -> 707
\* RotationMat2(2 * math.Pi / float32(n)).
RotationMat2(n) ==
    [x00 |-> cosTurn(n), x01 |-> 0 - sinTurn(n), x10 |-> sinTurn(n), x11 |-> cosTurn(n)]
\* A fixed-point product rounded to the grid of positions.
RoundFP(x) ==
    IF x >= 0 THEN (x + FP \div 2) \div FP ELSE 0 - ((FP \div 2 - x) \div FP)
MulMatVec(m, v) ==
    <<RoundFP(v[1] * m.x00 + v[2] * m.x01), RoundFP(v[1] * m.x10 + v[2] * m.x11)>>

RECURSIVE NagonLoopNoTurn(_, _, _, _, _, _, _)
\* Mutant: the loop of NagonSmoothed never turns v.
NagonLoopNoTurn(vs, k, n, v, m, radius, facets) ==
    IF k >= n THEN vs
    ELSE NagonLoopNoTurn(Append(vs, SmoothCP(ControlPoint(v), radius, facets)),
                         k + 1, n, v, m, radius, facets)

RECURSIVE NagonLoop(_, _, _, _, _, _, _)
\* The loop of NagonSmoothed: p.Add(v).Smooth(radius, facets), then v turns.
NagonLoop(vs, k, n, v, m, radius, facets) ==
    IF k >= n THEN vs
    ELSE NagonLoop(Append(vs, SmoothCP(ControlPoint(v), radius, facets)),
                   k + 1, n, MulMatVec(m, v), m, radius, facets)

\* Mutant: NagonSmoothed returns when the radius is below the center distance.
NagonSmoothedBelow(n, centerDistance, facets, radius) ==
    /\ pc = "idle"
    /\ verts' = IF n < 3 \/ (radius # 0 /\ radius < centerDistance * FP)
                THEN verts
                ELSE NagonLoop(<<>>, 0, n, <<centerDistance, 0>>, RotationMat2(n),
                               radius, facets)
    /\ ref' = [k \in 1..Len(verts') |-> verts'[k].v]
    /\ UNCHANGED walk

NagonSmoothed(n, centerDistance, facets, radius) ==
    /\ pc = "idle"
    /\ verts' = IF n < 3 \/ (radius # 0 /\ radius > centerDistance * FP)
                THEN verts
                ELSE NagonLoop(<<>>, 0, n, <<centerDistance, 0>>, RotationMat2(n),
                               radius, facets)
    /\ ref' = [k \in 1..Len(verts') |-> verts'[k].v]
    /\ UNCHANGED walk

Nagon(n, centerDistance) == NagonSmoothed(n, centerDistance, Small(0), 0)

\* ------------------------------------------------------------- AppendVecs
\* Mutant: the entry check accepts a single control point.
EnterWithOne(b, l) ==
    /\ buf0' = b /\ last' = l
    /\ IF Len(verts) < 1
       THEN pc' = "ret" /\ buf' = b /\ err' = errTooFew /\ i' = 0 /\ prev' = NoPoint
       ELSE pc' = "loop" /\ buf' = b /\ err' = NoErr /\ i' = 0 /\ prev' = verts[Len(verts)]
    /\ UNCHANGED <<verts, ref, thr, parse, mem>>

\* Entry: the length check and the initialisation of prev.
Enter(b, l) ==
    /\ buf0' = b /\ last' = l
    /\ IF Len(verts) < 2
       THEN pc' = "ret" /\ buf' = b /\ err' = errTooFew /\ i' = 0 /\ prev' = NoPoint
       ELSE pc' = "loop" /\ buf' = b /\ err' = NoErr /\ i' = 0 /\ prev' = verts[Len(verts)]
    /\ UNCHANGED <<verts, ref, thr, parse, mem>>

AppendVecs(b) == pc = "idle" /\ Enter(b, NoLast)

\* The caller calls AppendVecs again with an equal buffer, keeping the first result.
AppendVecsAgain ==
    /\ pc = "ret" /\ ~last.set
    /\ Enter(buf0, [set |-> TRUE, buf |-> buf, err |-> err])

\* Mutant: the duplicate check also compares point 0 with the last point.
IterationCyclic(vs, dst, pv, idx) ==
    LET current == vs[idx + 1]
    IN  IF pv = current
        THEN [dst |-> dst, err |-> errCPEqualToPrev]
        ELSE IF isArc(current)
        THEN LET a == appendArc2points(dst, pv.v, current.v, current.radius, neg32(current.facets))
             IN  [dst |-> Append(a.dst, Pt(current.v)), err |-> a.err]
        ELSE IF isSmoothed(current)
        THEN LET next == vs[((idx + 1) % Len(vs)) + 1]
             IN  appendSmoothedCorner(dst, pv.v, current.v, next.v, current.radius, current.facets)
        ELSE [dst |-> Append(dst, Pt(current.v)), err |-> "nil"]

\* What one iteration of the loop does for control point idx (0-based):
\* the buffer it leaves and the error it hits ("nil" for none).
\* Mutant: the arc branch looks at the error before it appends the position.
IterationChecksArc(vs, dst, pv, idx) ==
    LET current == vs[idx + 1]
    IN  IF idx # 0 /\ pv = current
        THEN [dst |-> dst, err |-> errCPEqualToPrev]
        ELSE IF isArc(current)
        THEN LET a == appendArc2points(dst, pv.v, current.v, current.radius, neg32(current.facets))
             IN  IF a.err # "nil" THEN a
                 ELSE [dst |-> Append(a.dst, Pt(current.v)), err |-> a.err]
        ELSE IF isSmoothed(current)
        THEN LET next == vs[((idx + 1) % Len(vs)) + 1]
             IN  appendSmoothedCorner(dst, pv.v, current.v, next.v, current.radius, current.facets)
        ELSE [dst |-> Append(dst, Pt(current.v)), err |-> "nil"]
Iteration(vs, dst, pv, idx) ==
    LET current == vs[idx + 1]
    IN  IF idx # 0 /\ pv = current
        THEN [dst |-> dst, err |-> errCPEqualToPrev]
        ELSE IF isArc(current)
        THEN LET a == appendArc2points(dst, pv.v, current.v, current.radius, neg32(current.facets))
             IN  [dst |-> Append(a.dst, Pt(current.v)), err |-> a.err]
        ELSE IF isSmoothed(current)
        THEN LET next == vs[((idx + 1) % Len(vs)) + 1]
             IN  appendSmoothedCorner(dst, pv.v, current.v, next.v, current.radius, current.facets)
        ELSE [dst |-> Append(dst, Pt(current.v)), err |-> "nil"]

\* Mutant: the walk removes from the builder the duplicate point it reports.
LoopStepDropsDuplicate ==
    /\ pc = "loop"
    /\ IF i >= Len(verts)
       THEN pc' = "ret" /\ UNCHANGED <<buf, i, prev, err, verts>>
       ELSE LET it == Iteration(verts, buf, prev, i)
            IN  /\ buf' = it.dst
                /\ verts' = IF it.err = errCPEqualToPrev
                            THEN SubSeq(verts, 1, i) \o SubSeq(verts, i + 2, Len(verts))
                            ELSE verts
                /\ IF it.err # "nil"
                   THEN pc' = "ret" /\ err' = cpAtIdxErr(i, it.err) /\ UNCHANGED <<i, prev>>
                   ELSE pc' = "loop" /\ prev' = verts[i + 1] /\ i' = i + 1 /\ UNCHANGED err
    /\ UNCHANGED <<ref, buf0, last, thr, parse, mem>>

\* Mutant: the walk records the error and goes on to the next point.
LoopStepContinues ==
    /\ pc = "loop"
    /\ IF i >= Len(verts)
       THEN pc' = "ret" /\ UNCHANGED <<buf, i, prev, err>>
       ELSE LET it == Iteration(verts, buf, prev, i)
            IN  /\ buf' = it.dst
                /\ pc' = "loop" /\ prev' = verts[i + 1] /\ i' = i + 1
                /\ err' = IF it.err # "nil" THEN cpAtIdxErr(i, it.err) ELSE err
    /\ UNCHANGED <<verts, ref, buf0, last, thr, parse, mem>>

\* One pass of the loop body, or the return after the last point.
\* Mutant: the walk keeps the last point as prev for every point.
LoopStepKeepsPrev ==
    /\ pc = "loop"
    /\ IF i >= Len(verts)
       THEN pc' = "ret" /\ UNCHANGED <<buf, i, prev, err>>
       ELSE LET it == Iteration(verts, buf, prev, i)
            IN  /\ buf' = it.dst
                /\ IF it.err # "nil"
                   THEN pc' = "ret" /\ err' = cpAtIdxErr(i, it.err) /\ UNCHANGED <<i, prev>>
                   ELSE pc' = "loop" /\ i' = i + 1 /\ UNCHANGED <<prev, err>>
    /\ UNCHANGED <<verts, ref, buf0, last, thr, parse, mem>>

LoopStep ==
    /\ pc = "loop"
    /\ IF i >= Len(verts)
       THEN pc' = "ret" /\ UNCHANGED <<buf, i, prev, err>>
       ELSE LET it == Iteration(verts, buf, prev, i)
            IN  /\ buf' = it.dst
                /\ IF it.err # "nil"
                   THEN pc' = "ret" /\ err' = cpAtIdxErr(i, it.err) /\ UNCHANGED <<i, prev>>
                   ELSE pc' = "loop" /\ prev' = verts[i + 1] /\ i' = i + 1 /\ UNCHANGED err
    /\ UNCHANGED <<verts, ref, buf0, last, thr, parse, mem>>

\* The caller takes the result.
Return ==
    /\ pc = "ret"
    /\ pc' = "idle" /\ buf0' = <<>> /\ buf' = <<>> /\ i' = 0
    /\ prev' = NoPoint /\ err' = NoErr /\ last' = NoLast
    /\ UNCHANGED <<verts, ref, thr, parse, mem>>

\* ------------------------------------------------- AppendVecs in a thread
\* The same code run by thread t on its own locals and its own buffer.
TEnter(t, b) ==
    /\ thr[t].pc = "idle"
    /\ thr' = [thr EXCEPT ![t] =
                 IF Len(verts) < 2
                 THEN [pc |-> "ret", buf0 |-> b, buf |-> b, i |-> 0,
                       prev |-> NoPoint, err |-> errTooFew]
                 ELSE [pc |-> "loop", buf0 |-> b, buf |-> b, i |-> 0,
                       prev |-> verts[Len(verts)], err |-> NoErr]]
    /\ UNCHANGED <<verts, ref, pc, buf0, buf, i, prev, err, last, call, parse, mem>>

\* Mutant: prev is kept in a place the threads share.
TLoopStepSharedPrev(t) ==
    /\ thr[t].pc = "loop"
    /\ LET s == thr[t]
           pv == IF s.i = 0 THEN verts[Len(verts)] ELSE prev
       IN  IF s.i >= Len(verts)
           THEN thr' = [thr EXCEPT ![t] = [s EXCEPT !.pc = "ret"]] /\ UNCHANGED prev
           ELSE LET it == Iteration(verts, s.buf, pv, s.i)
                IN  IF it.err # "nil"
                    THEN /\ thr' = [thr EXCEPT ![t] =
                                      [s EXCEPT !.pc = "ret", !.buf = it.dst,
                                                !.err = cpAtIdxErr(s.i, it.err)]]
                         /\ UNCHANGED prev
                    ELSE /\ thr' = [thr EXCEPT ![t] =
                                      [s EXCEPT !.buf = it.dst, !.i = s.i + 1]]
                         /\ prev' = verts[s.i + 1]
    /\ UNCHANGED <<verts, ref, pc, buf0, buf, i, err, last, call, parse, mem>>

TLoopStep(t) ==
    /\ thr[t].pc = "loop"
    /\ LET s == thr[t]
       IN  IF s.i >= Len(verts)
           THEN thr' = [thr EXCEPT ![t] = [s EXCEPT !.pc = "ret"]]
           ELSE LET it == Iteration(verts, s.buf, s.prev, s.i)
                IN  IF it.err # "nil"
                    THEN thr' = [thr EXCEPT ![t] =
                                   [s EXCEPT !.pc = "ret", !.buf = it.dst,
                                             !.err = cpAtIdxErr(s.i, it.err)]]
                    ELSE thr' = [thr EXCEPT ![t] =
                                   [s EXCEPT !.buf = it.dst, !.prev = verts[s.i + 1],
                                             !.i = s.i + 1]]
    /\ UNCHANGED <<verts, ref, pc, buf0, buf, i, prev, err, last, call, parse, mem>>

TReturn(t) ==
    /\ thr[t].pc = "ret"
    /\ thr' = [thr EXCEPT ![t] = IdleThread]
    /\ UNCHANGED <<verts, ref, pc, buf0, buf, i, prev, err, last, call, parse, mem>>

Generate ==
    \/ \E b \in InBufs : AppendVecs(b)
    \/ AppendVecsAgain
    \/ LoopStep
    \/ Return

Next ==
    /\ UNCHANGED call
    /\ \/ \E v \in ApiPositions : Add(v)
       \/ \E v \in ApiPositions : AddXY(v[1], v[2])
       \/ \E v \in Deltas : AddRelative(v)
       \/ DropLast
       \/ Reset
       \/ \E h \in 1..MaxPts, r \in ApiRadiusArgs, f \in FacetArgs : Smooth(h, r, f)
       \/ \E h \in 1..MaxPts, r \in ApiRadiusArgs, f \in FacetArgs : Arc(h, r, f)
       \/ \E h \in 1..MaxPts, s \in SizeArgs : Chamfer(h, s)
       \/ Generate

Spec == Init /\ [][Next]_vars

\* ------------------------------------------------- generator specification
\* The control points Add* followed by Smooth or Arc can leave in the builder.
GenPoints ==
    {ControlPoint(v) : v \in Positions}
    \cup {SmoothCP(ControlPoint(v), r * FP, Small(f)) :
             v \in Positions, r \in 1..MaxRadius, f \in 1..MaxFacets}
    \cup {ArcCP(ControlPoint(v), sg * r * FP, Small(f)) :
             v \in Positions, sg \in {0 - 1, 1}, r \in 1..MaxArcRadius, f \in 1..MaxFacets}

RECURSIVE SeqsUpTo(_, _)
SeqsUpTo(S, n) ==
    IF n = 0 THEN {<<>>}
    ELSE LET shorter == SeqsUpTo(S, n - 1)
         IN  shorter \cup {Append(q, x) : q \in {t \in shorter : Len(t) = n - 1}, x \in S}

\* The builder holds any sequence of control points; AppendVecs walks it.
GenInit ==
    /\ verts \in SeqsUpTo(GenPoints, MaxPts)
    /\ ref = [n \in 1..Len(verts) |-> verts[n].v]
    /\ Idle /\ call = NoCall

GenNext ==
    /\ UNCHANGED call
    /\ \/ \E b \in InBufs : AppendVecs(b)
       \/ LoopStep
       \/ Return

GenSpec == GenInit /\ [][GenNext]_vars

\* --------------------------------------------- control-point specification
\* Smooth, Arc and Chamfer called with any arguments on any control point.
RadiusArgs == {r * FP : r \in (0 - MaxArcRadius)..MaxRadius}
WideFacetArgs == {GoInt(hi, lo) : hi \in 0..MaxWraps, lo \in (0 - 1)..MaxFacets}

\* The builder holds two sharp points; the calls take them through every mode.
CPInit ==
    /\ verts = <<ControlPoint(<<0, 0>>), ControlPoint(<<1, 3>>)>>
    /\ ref = [n \in 1..Len(verts) |-> verts[n].v]
    /\ Idle /\ call = NoCall

CPNext ==
    \/ \E h \in 1..Len(verts), r \in RadiusArgs, f \in WideFacetArgs :
          Smooth(h, r, f) /\ call' = Called("Smooth", h, r, f)
    \/ \E h \in 1..Len(verts), r \in RadiusArgs, f \in WideFacetArgs :
          Arc(h, r, f) /\ call' = Called("Arc", h, r, f)
    \/ \E h \in 1..Len(verts), sz \in (0 - 1)..MaxSize :
          Chamfer(h, sz) /\ call' = Called("Chamfer", h, sz, Small(1))

CPSpec == CPInit /\ [][CPNext]_vars

\* ------------------------------------------------ concurrent specification
\* Threads call AppendVecs on one builder that nothing mutates, in any interleaving.
ConcPoints ==
    {ControlPoint(v) : v \in ApiPositions}
    \cup {SmoothCP(ControlPoint(v), FP, Small(2)) : v \in ApiPositions}
    \cup {ArcCP(ControlPoint(v), FP, Small(2)) : v \in ApiPositions}
ConcInit ==
    /\ verts \in SeqsUpTo(ConcPoints, MaxPts)
    /\ ref = [n \in 1..Len(verts) |-> verts[n].v]
    /\ Idle /\ call = NoCall
ConcNext ==
    \E t \in Threads :
        \/ \E b \in InBufs : TEnter(t, b)
        \/ TLoopStep(t)
        \/ TReturn(t)

ConcSpec == ConcInit /\ [][ConcNext]_vars

\* ---------------------------------------------------------- orientation
\* Mutant: the slope difference is taken the other way round.
CopyOrientationFlipped(f, p1, p2, p3) ==
    LET slope1 == (p2[2] - p1[2]) * (p3[1] - p2[1])
        slope2 == (p3[2] - p2[2]) * (p2[1] - p1[1])
    IN  IF slope1 = slope2 THEN 0 ELSE Copysign(f, slope1 - slope2)
CopyOrientation(f, p1, p2, p3) ==
    LET slope1 == (p2[2] - p1[2]) * (p3[1] - p2[1])
        slope2 == (p3[2] - p2[2]) * (p2[1] - p1[1])
    IN  IF slope1 = slope2 THEN 0 ELSE Copysign(f, slope2 - slope1)

RECURSIVE Shoelace(_, _)
\* Twice the signed area of the control-point sequence: the sum over the
\* first k edges, the closing edge included, of x1*y2 - x2*y1.
Shoelace(vs, k) ==
    IF k = 0 THEN 0
    ELSE LET a == vs[k].v
             b == vs[(k % Len(vs)) + 1].v
         IN  a[1] * b[2] - b[1] * a[2] + Shoelace(vs, k - 1)
\* PolygonBuilder.IsClockwise, by the sign of the signed area; the sign that
\* answers true is the one TestPolygon_IsClockwise expects.
IsClockwise(vs) == Shoelace(vs, Len(vs)) > 0

\* The query, its answer kept with the points it was asked about.
IsClockwiseCall ==
    /\ pc = "idle"
    /\ call' = [NoCall EXCEPT !.op = "IsClockwise", !.held = verts,
                              !.ret = IsClockwise(verts)]
    /\ UNCHANGED <<verts, ref, walk>>

\* Builders of up to MaxPts sharp points on the corners of a square.
OrientPositions == {<<0, 0>>, <<0, 2>>, <<2, 0>>, <<2, 2>>}
OrientNext ==
    \/ (\E v \in OrientPositions : Add(v)) /\ call' = NoCall
    \/ DropLast /\ call' = NoCall
    \/ Reset /\ call' = NoCall
    \/ IsClockwiseCall

OrientSpec == Init /\ [][OrientNext]_vars

\* ------------------------------------------------ regular-polygon specification
\* Nagon and NagonSmoothed on a builder that holds anything Add put there,
\* each followed by AppendVecs.
NArgs == 2..MaxN
DistArgs == {0 - MaxDist, 0, MaxDist}
NagonRadiusArgs == {0 - FP, 0, 2 * FP, (MaxDist + 1) * FP}
NagonFacetArgs == {Small(0), Small(2)}

NagonNext ==
    \/ (\E v \in ApiPositions : Add(v)) /\ call' = NoCall
    \/ \E n \in NArgs, d \in DistArgs :
          Nagon(n, d) /\ call' = NagonCalled("Nagon", n, d, Small(0), 0)
    \/ \E n \in NArgs, d \in DistArgs, f \in NagonFacetArgs, r \in NagonRadiusArgs :
          NagonSmoothed(n, d, f, r) /\ call' = NagonCalled("NagonSmoothed", n, d, f, r)
    \/ AppendVecs(<<>>) /\ UNCHANGED call
    \/ LoopStep /\ UNCHANGED call
    \/ Return /\ UNCHANGED call

NagonSpec == Init /\ [][NagonNext]_vars

\* ------------------------------------------------ rounded-square specification
\* The body of TestPolygon_circle_smoothing: a square of half-side r around
\* offset, its corners smoothed with radius r, then AppendVecs.
RECURSIVE Ulp(_, _)
\* The spacing of the float32 values around magnitude a, in the unit of a.
Ulp(a, u) == IF a \div u < TwoTo24 THEN u ELSE Ulp(a, 2 * u)
\* The float32 nearest to x, ties to the even significand.
float32(x) ==
    LET a == Abs(x)
        u == Ulp(a, 1)
        q == a \div u
        rem == a % u
        m == IF 2 * rem > u \/ (2 * rem = u /\ q % 2 = 1) THEN q + 1 ELSE q
    IN  IF x < 0 THEN 0 - m * u ELSE m * u
\* offset.X+a, offset.Y+b as the float32 sums the test passes to AddXY.
Translated(offset, a, b) == <<float32(offset[1] + a), float32(offset[2] + b)>>

\* testoffsets, and an offset around which the float32 values lie further
\* apart than twice the half-sides used.
testoffsets ==
    {<<-2, -4>>, <<-4, 2>>, <<4, -2>>, <<0, 0>>, <<2, 0>>, <<0, 2>>, <<2, 2>>}
FarOffsets == {<<4 * TwoTo24, 0>>}
SquareSides == 1..MaxRadius
SquareFacets == 2..MaxSquareFacets

SquarePoints(offset, r, facets) ==
    LET sharp(a, b) == ControlPoint(Translated(offset, a, b))
        corner(a, b) == SmoothCP(sharp(a, b), r * FP, Small(facets))
    IN  << sharp(r, 0), corner(r, r), sharp(0, r), corner(0 - r, r),
           sharp(0 - r, 0), corner(0 - r, 0 - r), sharp(0, 0 - r), corner(r, 0 - r) >>

CircleSmoothing(offset, r, facets) ==
    /\ pc = "idle"
    /\ verts' = SquarePoints(offset, r, facets)
    /\ ref' = [n \in 1..8 |-> SquarePoints(offset, r, facets)[n].v]
    /\ call' = [NoCall EXCEPT !.op = "square", !.d = r, !.n = facets, !.offset = offset]
    /\ UNCHANGED walk

SquareNext ==
    \/ \E o \in testoffsets \cup FarOffsets, r \in SquareSides, f \in SquareFacets :
          CircleSmoothing(o, r, f)
    \/ (\E b \in InBufs : AppendVecs(b)) /\ UNCHANGED call
    \/ LoopStep /\ UNCHANGED call
    \/ Return /\ UNCHANGED call

SquareSpec == Init /\ [][SquareNext]_vars

\* ------------------------------------------------------ shader source parser
\* A line is the sequence of its whitespace-separated fields; a text is a
\* sequence of lines, and the byte 0 that ends a source is the line NUL.
NUL == <<"\\0">>
\* bytes.HasPrefix(bytes.TrimSpace(line), "#shader "): text follows the space.
HasShaderPrefix(line) == Len(line) >= 2 /\ line[1] = "#shader"
\* The switch over the second field of a pragma line; 0 - 1 for default.
PragmaShader(word) ==
    CASE word = "includeashead" -> shaderHeader
      [] word = "vertex" -> shaderVertex
      [] word \in {"fragment", "pixel"} -> shaderFragment
      [] word = "compute" -> shaderCompute
      [] OTHER -> 0 - 1
unexpectedPragma(word) == <<"unexpected #shader pragma value:", word>>

\* The call: the scanner is at the first line, every buffer is empty.
ParseCombined(r) ==
    /\ parse.pc = "idle"
    /\ parse' = [NoParse EXCEPT !.pc = "scan", !.file = r, !.lines = r]
    /\ UNCHANGED <<verts, ref, pc, buf0, buf, i, prev, err, last, call, thr, mem>>

\* One iteration of the loop over scanner.Scan().
Scan ==
    /\ parse.pc = "scan" /\ parse.lines # <<>>
    /\ LET line == Head(parse.lines)
           rest == Tail(parse.lines)
           cur == parse.currentShader
       IN  IF cur # shaderNone /\ ~HasShaderPrefix(line)
           THEN parse' = [parse EXCEPT !.lines = rest,
                                       !.buffers[cur] = Append(@, line)]
           ELSE IF Len(line) # 2
           THEN parse' = [parse EXCEPT !.lines = rest]
           ELSE IF PragmaShader(line[2]) < 0
           THEN parse' = [parse EXCEPT !.pc = "ret", !.ss = NoSource,
                                       !.err = unexpectedPragma(line[2])]
           ELSE parse' = [parse EXCEPT !.lines = rest,
                                       !.currentShader = PragmaShader(line[2])]
    /\ UNCHANGED <<verts, ref, pc, buf0, buf, i, prev, err, last, call, thr, mem>>

\* A source: the include text, the buffer and the byte 0; empty for an
\* empty buffer.
Source(isrc, b) == IF Len(b) > 0 THEN isrc \o b \o <<NUL>> ELSE <<>>
\* After the last line: the sources are put together and returned.
ParseReturn ==
    /\ parse.pc = "scan" /\ parse.lines = <<>>
    /\ LET isrc == parse.buffers[shaderHeader]
       IN  parse' = [parse EXCEPT
               !.pc = "ret",
               !.ss = [Vertex |-> Source(isrc, parse.buffers[shaderVertex]),
                       Fragment |-> Source(isrc, parse.buffers[shaderFragment]),
                       Compute |-> Source(isrc, parse.buffers[shaderCompute]),
                       Include |-> isrc],
               !.err = "nil"]
    /\ UNCHANGED <<verts, ref, pc, buf0, buf, i, prev, err, last, call, thr, mem>>

\* Files of up to MaxLines lines: blank, one word, two words, three words,
\* pragmas of every kind, and a pragma with a field too many.
Lines ==
    { <<>>, <<"x">>, <<"//", "vertex">>, <<"#version", "330">>, <<"void", "main()", "{}">>,
      <<"#shader", "vertex">>, <<"#shader", "fragment">>, <<"#shader", "pixel">>,
      <<"#shader", "compute">>, <<"#shader", "includeashead">>,
      <<"#shader", "geometry">>, <<"#shader", "vertex", "x">> }
Files == SeqsUpTo(Lines, MaxLines)

ParseNext ==
    \/ \E r \in Files : ParseCombined(r)
    \/ Scan
    \/ ParseReturn

ParseSpec == Init /\ [][ParseNext]_vars

\* ------------------------------------------------------ chamfer specification
\* Chamfer through the handle of any point of a builder that Add fills, then
\* AppendVecs; the call is kept until DropLast or Reset removes points.
ChamferSizes == {0 - 1, 0, MaxSize, 2 * MaxSize}
ChamferNext ==
    \/ (\E v \in ApiPositions : Add(v)) /\ UNCHANGED call
    \/ \E h \in 1..MaxPts, sz \in ChamferSizes :
          Chamfer(h, sz) /\ call' = Called("Chamfer", h, sz, Small(1))
    \/ DropLast /\ call' = NoCall
    \/ Reset /\ call' = NoCall
    \/ (\E b \in InBufs : AppendVecs(b)) /\ UNCHANGED call
    \/ LoopStep /\ UNCHANGED call
    \/ Return /\ UNCHANGED call

ChamferSpec == Init /\ [][ChamferNext]_vars

\* ---------------------------------------------------- collinear specification
\* Control points on a line whose direction has a long float32 unit vector,
\* and one point off the line; any sequence of them is generated.
CollinearPositions == {<<0, 0>>, <<1, 4>>, <<2, 8>>, <<2, 0>>}
CollinearPoints ==
    {ControlPoint(v) : v \in CollinearPositions}
    \cup {SmoothCP(ControlPoint(v), r * FP, Small(MaxFacets)) :
             v \in CollinearPositions, r \in 1..MaxRadius}
CollinearInit ==
    /\ verts \in SeqsUpTo(CollinearPoints, MaxPts)
    /\ ref = [n \in 1..Len(verts) |-> verts[n].v]
    /\ Idle /\ call = NoCall

CollinearSpec == CollinearInit /\ [][GenNext]_vars

\* ------------------------------------------------------------ arc specification
\* arcCenterFrom2points on chords of every direction, the axes included, and
\* radii of both signs; the call is kept with its result.
ArcEnds == {<<x, y>> : x \in (0 - 1)..1, y \in (0 - 1)..1}
ArcRadii == {sg * r * FP : sg \in {0 - 1, 1}, r \in 1..MaxRadius}
ArcCenterCall(p1, p2, r) ==
    /\ pc = "idle"
    /\ call' = [NoCall EXCEPT !.op = "arcCenterFrom2points", !.held = <<p1, p2>>,
                              !.radius = r, !.arc = arcCenterFrom2points(p1, p2, r)]
    /\ UNCHANGED <<verts, ref, walk>>
ArcNext == \E p1 \in ArcEnds, p2 \in ArcEnds, r \in ArcRadii : ArcCenterCall(p1, p2, r)

ArcSpec == Init /\ [][ArcNext]_vars

\* ------------------------------------------------ CopyOrientation specification
\* CopyOrientation on every triple of points of a 3x3 grid and magnitudes of
\* both signs; the call is kept with its result.
CopyOrientationCall(f, p1, p2, p3) ==
    /\ pc = "idle"
    /\ call' = [NoCall EXCEPT !.op = "CopyOrientation", !.held = <<p1, p2, p3>>,
                              !.f = f, !.out = CopyOrientation(f, p1, p2, p3)]
    /\ UNCHANGED <<verts, ref, walk>>
CopyNext ==
    \E f \in (0 - MaxF)..MaxF, p1 \in ArcEnds, p2 \in ArcEnds, p3 \in ArcEnds :
        CopyOrientationCall(f, p1, p2, p3)

CopySpec == Init /\ [][CopyNext]_vars

\* ------------------------------------------------------ mode specification
\* Every builder operation, with facet counts over the whole int32 range.
MaxInt32 == 0 - (MinInt32 + 1)
ModeFacetArgs == {Small(0), Small(1), Small(MaxInt32)}
Op(name, h) == [NoCall EXCEPT !.op = name, !.h = h]

ModeNext ==
    \/ Add(<<0, 0>>) /\ call' = Op("Add", 0)
    \/ AddXY(1, 3) /\ call' = Op("AddXY", 0)
    \/ AddRelative(<<1, 0>>) /\ call' = Op("AddRelative", 0)
    \/ DropLast /\ call' = Op("DropLast", 0)
    \/ Reset /\ call' = Op("Reset", 0)
    \/ \E h \in 1..Len(verts), r \in ApiRadiusArgs, f \in ModeFacetArgs :
          Smooth(h, r, f) /\ call' = Op("Smooth", h)
    \/ \E h \in 1..Len(verts), r \in ApiRadiusArgs, f \in ModeFacetArgs :
          Arc(h, r, f) /\ call' = Op("Arc", h)
    \/ \E h \in 1..Len(verts), sz \in SizeArgs :
          Chamfer(h, sz) /\ call' = Op("Chamfer", h)
    \/ Nagon(MaxPts, MaxDist) /\ call' = Op("Nagon", 0)
    \/ \E f \in ModeFacetArgs, r \in ApiRadiusArgs :
          NagonSmoothed(MaxPts, MaxDist, f, r) /\ call' = Op("NagonSmoothed", 0)

ModeSpec == Init /\ [][ModeNext]_vars

\* ---------------------------------------------------- handle specification
\* p.verts as a Go slice: append writes into the backing array while the
\* length is below the capacity and otherwise moves the elements to a new,
\* larger array; the pointer &p.verts[len(p.verts)-1] that Add returns stays
\* with the array it was taken from.
MaxAdds == 3
Cap(m) == IF m.cur = 0 THEN 0 ELSE Len(m.arrays[m.cur])
\* p.verts: the first len elements of the current array.
Visible(m) == IF m.cur = 0 THEN <<>> ELSE SubSeq(m.arrays[m.cur], 1, m.len)
\* The capacities append may give the new array of a slice of n elements.
GrowthCaps(n) == {n + 1, IF n = 0 THEN 1 ELSE 2 * n}
\* append(p.verts, cp), newcap being the capacity of the new array, if any.
append(m, cp, newcap) ==
    IF m.len < Cap(m)
    THEN [m EXCEPT !.arrays[m.cur][m.len + 1] = cp, !.len = m.len + 1]
    ELSE [m EXCEPT !.arrays = Append(@, Visible(m) \o <<cp>>
                                         \o [k \in 1..(newcap - m.len - 1) |-> NoPoint]),
                   !.cur = Len(m.arrays) + 1, !.len = m.len + 1]
\* The position given to the k-th call of Add: every call has its own.
PosOf(k) == <<k, 0>>
Ptr(h, r, f) == [NoCall EXCEPT !.h = h, !.radius = r, !.facets = f, !.held = verts]

\* Add, with the pointer it returns.
AddHandle ==
    /\ pc = "idle" /\ Len(mem.handles) < MaxAdds
    /\ \E newcap \in GrowthCaps(mem.len) :
          LET m == append(mem, ControlPoint(PosOf(Len(mem.handles) + 1)), newcap)
          IN  mem' = [m EXCEPT !.handles = Append(@, [arr |-> m.cur, idx |-> m.len])]
    /\ verts' = Visible(mem')
    /\ ref' = Append(ref, PosOf(Len(mem.handles) + 1))
    /\ call' = [Ptr(Len(mem.handles) + 1, 0, Small(0)) EXCEPT !.op = "Add"]
    /\ UNCHANGED <<pc, buf0, buf, i, prev, err, last, thr, parse>>

DropLastSlice ==
    /\ pc = "idle"
    /\ mem' = [mem EXCEPT !.len = IF @ > 0 THEN @ - 1 ELSE @]
    /\ verts' = Visible(mem')
    /\ ref' = IF Len(ref) > 0 THEN SubSeq(ref, 1, Len(ref) - 1) ELSE ref
    /\ call' = [Ptr(0, 0, Small(0)) EXCEPT !.op = "DropLast"]
    /\ UNCHANGED <<pc, buf0, buf, i, prev, err, last, thr, parse>>

ResetSlice ==
    /\ pc = "idle"
    /\ mem' = [mem EXCEPT !.len = 0]
    /\ verts' = Visible(mem')
    /\ ref' = <<>>
    /\ call' = [Ptr(0, 0, Small(0)) EXCEPT !.op = "Reset"]
    /\ UNCHANGED <<pc, buf0, buf, i, prev, err, last, thr, parse>>

\* The control point the pointer h points at.
Deref(h) == mem.arrays[mem.handles[h].arr][mem.handles[h].idx]
\* A write of cp through the pointer h.
Store(h, cp) ==
    /\ pc = "idle"
    /\ mem' = [mem EXCEPT !.arrays[mem.handles[h].arr][mem.handles[h].idx] = cp]
    /\ verts' = Visible(mem')
    /\ UNCHANGED <<ref, pc, buf0, buf, i, prev, err, last, thr, parse>>

\* Smooth, Arc and Chamfer through the pointer the h-th call of Add returned.
SmoothVia(h, radius, facets) ==
    /\ Store(h, SmoothCP(Deref(h), radius, facets))
    /\ call' = [Ptr(h, radius, facets) EXCEPT !.op = "Smooth"]
ArcVia(h, radius, facets) ==
    /\ Store(h, ArcCP(Deref(h), radius, facets))
    /\ call' = [Ptr(h, radius, facets) EXCEPT !.op = "Arc"]
ChamferVia(h, size) ==
    /\ Store(h, ChamferCP(Deref(h), size))
    /\ call' = [Ptr(h, size, Small(1)) EXCEPT !.op = "Chamfer"]

AliasNext ==
    \/ AddHandle
    \/ DropLastSlice
    \/ ResetSlice
    \/ \E h \in 1..Len(mem.handles) : SmoothVia(h, FP, Small(MaxFacets))
    \/ \E h \in 1..Len(mem.handles) : ArcVia(h, 0 - FP, Small(MaxFacets))
    \/ \E h \in 1..Len(mem.handles) : ChamferVia(h, MaxSize)

AliasSpec == Init /\ [][AliasNext]_vars

\* ================================================================== claims
RECURSIVE SumTo(_, _)
\* f[1] + ... + f[n]
SumTo(f, n) == IF n = 0 THEN 0 ELSE f[n] + SumTo(f, n - 1)
Count(S) == Cardinality(S)
\* What AppendVecs appended to the caller's buffer.
Added == SubSeq(buf, Len(buf0) + 1, Len(buf))
KeepsInput == Len(buf) >= Len(buf0) /\ SubSeq(buf, 1, Len(buf0)) = buf0
Returned == pc = "ret"
Succeeded == pc = "ret" /\ err = NoErr

\* C1. AppendVecs never mutates the builder: no step of a call, successful or
\* failing, changes the control-point sequence, and a second call with an equal
\* input buffer returns the same vertices and the same error as the first.
C1_AppendVecsDoesNotMutate ==
    /\ [][(pc # "idle" \/ pc' # "idle") => verts' = verts]_vars
    /\ [](Returned /\ last.set => buf = last.buf /\ err = last.err)

\* A repeated call has returned, with success, on three points one of them smoothed.
C1_Witness ==
    /\ Succeeded /\ last.set /\ Len(verts) = 3 /\ buf0 # <<>>
    /\ \E n \in 1..3 : isSmoothed(verts[n]) /\ verts[n].facets >= 2

\* C2. Vertex-count law: a successful AppendVecs returns the caller's buffer
\* followed by 1 vertex per sharp point, F per arc point with F facets, and F-1
\* interior vertices plus at most two tangent vertices per smoothed point.
VertexCount(cp) ==
    IF isArc(cp) THEN 0 - cp.facets
    ELSE IF isSmoothed(cp) THEN cp.facets - 1
    ELSE 1
IsTangent(x) == x.k \in {"start", "end"}
Tangents == Count({n \in DOMAIN Added : IsTangent(Added[n])})
C2_VertexCountLaw ==
    Succeeded =>
        /\ KeepsInput
        /\ Len(Added) - Tangents = SumTo([n \in 1..Len(verts) |-> VertexCount(verts[n])], Len(verts))
        /\ Tangents <= 2 * Count({n \in 1..Len(verts) : isSmoothed(verts[n])})

\* A successful walk over a sharp, an arc and a smoothed point that emitted tangents.
C2_Witness ==
    /\ Succeeded /\ buf0 # <<>> /\ Tangents >= 1
    /\ \E n \in 1..Len(verts) : isArc(verts[n]) /\ verts[n].facets = 0 - 2
    /\ \E n \in 1..Len(verts) : isSmoothed(verts[n]) /\ verts[n].facets = 2

\* C3. With fewer than 2 control points AppendVecs fails with "too few
\* vertices" and returns the caller's buffer with nothing appended.
C3_TooFewVertices ==
    Returned /\ Len(verts) < 2 => err = errTooFew /\ buf = buf0

\* The call returned on a builder holding one point, the caller's buffer not empty.
C3_Witness == Returned /\ Len(verts) = 1 /\ buf0 # <<>> /\ err = errTooFew
\* ------------------------------------------------ per control point view
\* Control points are numbered from 1 here; the index the code reports is n - 1.
Points == 1..Len(verts)
PrevOf(n) == verts[IF n = 1 THEN Len(verts) ELSE n - 1]
NextOf(n) == verts[IF n = Len(verts) THEN 1 ELSE n + 1]
\* What the loop body does for point n when it is reached.
Outcome(n) == Iteration(verts, <<>>, PrevOf(n), n - 1)
Fails(n) == Outcome(n).err # "nil"
FirstReached(n) == \A m \in 1..(n - 1) : ~Fails(m)
Generated == Returned /\ Len(verts) >= 2
RECURSIVE Walked(_)
\* The buffer after the loop body ran for points 1..n.
Walked(n) ==
    IF n = 0 THEN buf0
    ELSE Iteration(verts, Walked(n - 1), PrevOf(n), n - 1).dst

\* C4. As stated: a control point i >= 1 at the position of control point i-1,
\* whatever the radius and facet settings of the two, makes AppendVecs fail with
\* DuplicateControlPoint at index i (when no earlier point fails first).
SamePositionAsPrev(n) == n >= 2 /\ verts[n].v = verts[n - 1].v
C4_SamePositionIsDuplicate ==
    Generated =>
        \A n \in Points :
            SamePositionAsPrev(n) /\ FirstReached(n)
                => err = cpAtIdxErr(n - 1, errCPEqualToPrev)

\* C5. The duplicate check is not cyclic: DuplicateControlPoint is never
\* reported at index 0, and a sequence of sharp points whose last point lies on
\* the first one, no point equal to the one before it, generates without error.
AllSharp == \A n \in Points : ~isArc(verts[n]) /\ ~isSmoothed(verts[n])
C5_DuplicateCheckNotCyclic ==
    Generated =>
        /\ err # cpAtIdxErr(0, errCPEqualToPrev)
        /\ (AllSharp /\ \A n \in Points : ~SamePositionAsPrev(n)) => err = NoErr

\* Three sharp points, the last on the first, generated without error.
C5_Witness ==
    /\ Succeeded /\ Len(verts) = 3 /\ AllSharp
    /\ verts[3].v = verts[1].v /\ Len(Added) = 3

\* C5 as stated: the last point lying on the first makes AppendVecs fail with
\* DuplicateControlPoint.
C5_CyclicDuplicateReported ==
    Generated /\ verts[Len(verts)].v = verts[1].v => err.msg = errCPEqualToPrev

\* C6. The walk stops at the first failure: the error carries the index of the
\* lowest-indexed control point whose processing fails, the loop index stays
\* there, the buffer holds what the loop built up to that point and no more, and
\* without a failing point the error is nil.
FailingPoints == {n \in Points : Fails(n)}
Lowest(S) == CHOOSE n \in S : \A m \in S : n <= m
C6_StopsAtFirstFailure ==
    Generated =>
        IF FailingPoints = {}
        THEN err = NoErr /\ buf = Walked(Len(verts))
        ELSE LET n == Lowest(FailingPoints)
             IN  /\ err = cpAtIdxErr(n - 1, Outcome(n).err)
                 /\ i = n - 1
                 /\ buf = Walked(n)

\* The walk failed at index 1 of three points, the point at index 2 failing too.
C6_Witness ==
    /\ Generated /\ Len(verts) = 3 /\ err.idx = 1
    /\ Fails(3) /\ ~Fails(1) /\ Outcome(3).err # Outcome(2).err

\* C7. Error locality: a smoothed corner of 2 or more facets whose radius
\* exceeds the length of an adjacent edge by more than arcTol, reached without
\* an earlier failure, fails with LargeSmoothRadius at exactly its index; no
\* other corner reached that way gets that error.
ExceedsByMoreThanTol(r, V) ==
    r > arcTolNum * FP /\ (r - arcTolNum * FP) * (r - arcTolNum * FP) > Norm2(V) * FP * FP
TooLargeByTol(n) ==
    /\ isSmoothed(verts[n]) /\ verts[n].facets >= 2
    /\ \/ ExceedsByMoreThanTol(verts[n].radius, Sub(PrevOf(n).v, verts[n].v))
       \/ ExceedsByMoreThanTol(verts[n].radius, Sub(NextOf(n).v, verts[n].v))
NoDuplicateAt(n) == n = 1 \/ PrevOf(n) # verts[n]
C7_LargeSmoothRadiusLocality ==
    Generated =>
        \A n \in Points :
            FirstReached(n) /\ NoDuplicateAt(n)
                => (err = cpAtIdxErr(n - 1, errLargeSmoothRadius) <=> TooLargeByTol(n))

\* The only failing corner of three points is the middle one, too large by more
\* than the tolerance, and the error names index 1.
C7_Witness ==
    /\ Generated /\ Len(verts) = 3 /\ TooLargeByTol(2) /\ FailingPoints = {2}
    /\ err = cpAtIdxErr(1, errLargeSmoothRadius)

\* C7 as stated: the one smoothed corner whose radius is greater than its
\* shorter adjacent edge, every other point valid, fails with LargeSmoothRadius.
Longer(r, V) == r > 0 /\ r * r > Norm2(V) * FP * FP
TooLarge(n) ==
    /\ isSmoothed(verts[n])
    /\ \/ Longer(verts[n].radius, Sub(PrevOf(n).v, verts[n].v))
       \/ Longer(verts[n].radius, Sub(NextOf(n).v, verts[n].v))
C7_RadiusOverEdgeReported ==
    Generated =>
        \A n \in Points :
            (/\ TooLarge(n)
             /\ \A m \in Points \ {n} : ~TooLarge(m) /\ ~Fails(m)
             /\ \A m \in Points : verts[m].v # PrevOf(m).v)
                => err = cpAtIdxErr(n - 1, errLargeSmoothRadius)

\* C8. As stated: an arc-mode point whose chord to the previous point is longer
\* than 2*|radius| makes AppendVecs fail with SmallArcRadius at its index (when
\* no earlier point fails first); the error is never nil.
ChordOverDiameter(n) ==
    /\ isArc(verts[n])
    /\ Norm2(Sub(verts[n].v, PrevOf(n).v)) * FP * FP > 4 * verts[n].radius * verts[n].radius
C8_SmallArcRadiusReported ==
    Generated =>
        \A n \in Points :
            ChordOverDiameter(n) /\ FirstReached(n)
                => err = cpAtIdxErr(n - 1, errSmallArcRadius)

\* C9. Smooth changes the control point only if radius > 0 and facets > 0, Arc
\* only if radius # 0 and facets > 0; it then stores the radius and the low 32
\* bits of the facet count (negated by Arc), which is the facet count itself
\* when that fits 32 bits. Any other call leaves the point as it was, and no
\* call touches the position or another point.
StoredBy(c) ==
    IF c.op = "Smooth" /\ c.radius > 0 /\ Positive(c.facets)
    THEN [c.was EXCEPT !.radius = c.radius, !.facets = c.facets.lo]
    ELSE IF c.op = "Arc" /\ c.radius # 0 /\ Positive(c.facets)
    THEN [c.was EXCEPT !.radius = c.radius, !.facets = 0 - c.facets.lo]
    ELSE c.was
PositionsOf(vs) == [n \in 1..Len(vs) |-> vs[n].v]
C10_ReferenceStack ==
    /\ [](PositionsOf(verts) = ref)
    /\ [][Len(verts') > Len(verts)
            => verts' = Append(verts, ControlPoint(ref'[Len(ref')]))]_vars
    /\ [][Len(verts') < Len(verts)
            => verts' = SubSeq(verts, 1, Len(verts'))]_vars

\* AddRelative placed the third point from a second one that is not at the origin.
C10_Witness ==
    /\ Len(verts) = 3 /\ pc = "idle"
    /\ verts[2].v # <<0, 0>> /\ verts[3].v = VecAdd(verts[2].v, <<1, 0>>)
    /\ verts[3].v \notin ApiPositions
\* C11. Regular-polygon round trip: for n >= 3, Nagon(n, d) replaces what the
\* builder held by n sharp control points at distance |d| from the origin (to
\* the resolution of the grid); a following AppendVecs returns exactly these n
\* vertices and no error when d # 0, and fails with DuplicateControlPoint at
\* index 1 when d = 0, all points lying on the origin.
NagonMade == call.op = "Nagon" /\ call.n >= 3
AtDistance(v, d) ==
    /\ (Abs(d) - 1) * (Abs(d) - 1) <= Norm2(v) \/ d = 0
    /\ Norm2(v) <= (Abs(d) + 1) * (Abs(d) + 1)
    /\ d = 0 => v = <<0, 0>>
NagonReturnsEarly(c) == c.n < 3 \/ (c.radius # 0 /\ c.radius > c.d * FP)
HeldAt(ps) == [k \in 1..Len(call.held) |-> call.held[k].v] = ps
TurnOfHeld == CopyOrientation(1, call.held[1].v, call.held[2].v, call.held[3].v)
RECURSIVE WalkFrom(_, _, _)
\* One sequential call, from control point k on.
WalkFrom(vs, dst, k) ==
    IF k >= Len(vs) THEN [buf |-> dst, err |-> NoErr]
    ELSE LET it == Iteration(vs, dst, vs[IF k = 0 THEN Len(vs) ELSE k], k)
         IN  IF it.err # "nil"
             THEN [buf |-> it.dst, err |-> cpAtIdxErr(k, it.err)]
             ELSE WalkFrom(vs, it.dst, k + 1)
Sequential(vs, b) ==
    IF Len(vs) < 2 THEN [buf |-> b, err |-> errTooFew] ELSE WalkFrom(vs, b, 0)
C14_ConcurrentGeneration ==
    /\ [](\A t \in Threads :
             thr[t].pc = "ret"
                => /\ thr[t].buf = Sequential(verts, thr[t].buf0).buf
                   /\ thr[t].err = Sequential(verts, thr[t].buf0).err)
    /\ [][verts' = verts]_vars

\* One thread has returned its vertices while another is in the middle of its
\* walk over the same three points, which are not all sharp.
C14_Witness ==
    /\ Len(verts) = 3 /\ ~AllSharp
    /\ thr[1].pc = "ret" /\ thr[1].err = NoErr /\ Len(thr[1].buf) > 3
    /\ thr[2].pc = "loop" /\ thr[2].i = 2 /\ thr[2].buf0 # thr[1].buf0
\* C15. As stated: whenever AppendVecs returns no error, every vertex emitted
\* while discretizing an arc-mode point or a smoothed corner lies at distance
\* |radius| from the center of its arc; a vertex whose coordinates are NaN
\* lies at no distance from anything.
OnItsArc(x) == x.k \in {"arc", "fillet"} => ~x.nan
C15_RadiusInvariant ==
    Succeeded => \A n \in DOMAIN Added : OnItsArc(Added[n])

\* The rounded square the test built, after AppendVecs returned.
SquareDone == call.op = "square" /\ Returned
\* float32 gave a corner of the square the position of a neighbour.
Absorbed == \E n \in 1..Len(verts) : verts[n].v = verts[(n % Len(verts)) + 1].v
\* C16. The rounded square of half-side r, its corners smoothed with radius r
\* and F facets, placed at one of the offsets of TestPolygon_circle_smoothing,
\* generates without error exactly 4 + (F-1)*4 vertices, none of them a
\* tangent vertex; at an offset so large that float32 absorbs r, AppendVecs
\* fails at the first corner.
C16_RoundedSquare ==
    SquareDone =>
        IF call.offset \in testoffsets
        THEN err = NoErr /\ Len(Added) = 4 + (call.n - 1) * 4 /\ Tangents = 0
        ELSE Absorbed =>
                 \/ err = cpAtIdxErr(1, errBadSmooth)
                 \/ err = cpAtIdxErr(1, errLargeSmoothRadius)
\* A square of more than two facets per corner at a test offset has been
\* generated into a buffer that already held a vertex.
C16_Witness ==
    /\ SquareDone /\ call.offset = <<-4, 2>> /\ call.n = MaxSquareFacets /\ call.d > 1
    /\ err = NoErr /\ Len(buf0) = 1 /\ Len(Added) = 4 + (call.n - 1) * 4
\* As stated: the count holds at every offset of the polygon.
C16_EveryOffset ==
    SquareDone => err = NoErr /\ Len(Added) = 4 + (call.n - 1) * 4

RECURSIVE Preamble(_)
\* The lines of a file above its first line that begins with #shader.
Preamble(r) ==
    IF r = <<>> \/ HasShaderPrefix(Head(r)) THEN <<>>
    ELSE <<Head(r)>> \o Preamble(Tail(r))
\* The file from its first #shader line on.
Body(r) == SubSeq(r, Len(Preamble(r)) + 1, Len(r))
\* Every #shader line of the body is a pragma of two fields and a known kind.
CleanBody(r) ==
    \A n \in DOMAIN Body(r) :
        HasShaderPrefix(Body(r)[n]) =>
            Len(Body(r)[n]) = 2 /\ PragmaShader(Body(r)[n][2]) >= 0
Range(q) == {q[n] : n \in DOMAIN q}
Parsed == parse.pc = "ret"
InSources(line) ==
    line \in Range(parse.ss.Vertex) \cup Range(parse.ss.Fragment)
             \cup Range(parse.ss.Compute) \cup Range(parse.ss.Include)
\* C17. As stated: whatever the lines above the first #shader pragma are,
\* ParseCombined returns no error and none of those lines appears in the
\* Vertex, Fragment, Compute or Include source (a line that the body holds
\* as well may appear for the body's sake).
C17_PreambleIgnored ==
    (Parsed /\ CleanBody(parse.file)) =>
        /\ parse.err = "nil"
        /\ \A n \in DOMAIN Preamble(parse.file) :
               Preamble(parse.file)[n] \notin Range(Body(parse.file))
                   => ~InSources(Preamble(parse.file)[n])

\* AppendVecs failed at a control point: the point, numbered from 1.
FailedAtPoint == Generated /\ err # NoErr /\ err.idx >= 0
FailingPoint == err.idx + 1
RECURSIVE BlocksUpTo(_)
\* The vertices of control points 1..n, one block after the other.
BlocksUpTo(n) == IF n = 0 THEN <<>> ELSE BlocksUpTo(n - 1) \o Outcome(n).dst
\* C18. When AppendVecs fails at control point i, the buffer returned with the
\* error is the caller's input buffer followed by the vertices generated for
\* control points 0..i-1 and, when point i is an arc-mode point whose radius
\* is too small, by the position of point i; it holds no other vertex of
\* point i and none of a later point.
C18_BufferAtFailure ==
    FailedAtPoint =>
        buf = buf0 \o BlocksUpTo(FailingPoint - 1)
                   \o (IF isArc(verts[FailingPoint]) /\ err.msg = errSmallArcRadius
                       THEN <<Pt(verts[FailingPoint].v)>> ELSE <<>>)
\* The walk failed at index 1 on an arc-mode point whose radius is too small;
\* the buffer the caller gave held a vertex.
C18_Witness ==
    /\ FailedAtPoint /\ FailingPoint = 2 /\ Len(buf0) = 1
    /\ isArc(verts[2]) /\ err.msg = errSmallArcRadius
    /\ buf = buf0 \o BlocksUpTo(1) \o <<Pt(verts[2].v)>>
\* As stated: the buffer holds the blocks of points 0..i-1 and no vertex
\* produced for the failing point.
C18_NoVertexOfFailingPoint ==
    FailedAtPoint => buf = buf0 \o BlocksUpTo(FailingPoint - 1)

\* The preconditions of C19 at point n, in exact arithmetic.
ApartFromPrev(n) == verts[n].v # PrevOf(n).v
ArcSpansChord(n) ==
    4 * verts[n].radius * verts[n].radius
        >= Norm2(Sub(verts[n].v, PrevOf(n).v)) * FP * FP
BelowEdge(r, V) == r * r < Norm2(V) * FP * FP
BelowBothEdges(n) ==
    /\ BelowEdge(verts[n].radius, Sub(PrevOf(n).v, verts[n].v))
    /\ BelowEdge(verts[n].radius, Sub(NextOf(n).v, verts[n].v))
Cross(a, b) == a[1] * b[2] - a[2] * b[1]
NotCollinear(n) ==
    Cross(Sub(PrevOf(n).v, verts[n].v), Sub(NextOf(n).v, verts[n].v)) # 0
\* The angle at the corner is at least arcTol away from 0 and from pi:
\* |cos| <= cos(arcTol).
OpenCorner(n) ==
    LET V10 == Sub(PrevOf(n).v, verts[n].v)
        V12 == Sub(NextOf(n).v, verts[n].v)
    IN  Dot(V10, V12) * Dot(V10, V12) * FP * FP
            <= cosArcTol * cosArcTol * Norm2(V10) * Norm2(V12)
\* C19. No spurious rejection: AppendVecs returns a nil error whenever there
\* are at least 2 control points, no two cyclically adjacent points share a
\* position, every arc-mode point has |radius| at least half the chord to its
\* previous point, and every smoothed point has a radius smaller than both
\* adjacent edge lengths at a corner whose angle is at least 0.5 rad away from
\* 0 and from pi.
C19_NoSpuriousRejection ==
    (/\ Generated
     /\ \A n \in Points :
            /\ ApartFromPrev(n)
            /\ isArc(verts[n]) => ArcSpansChord(n)
            /\ isSmoothed(verts[n]) => BelowBothEdges(n) /\ OpenCorner(n))
        => err = NoErr
\* A triangle with an arc along a chord as long as its diameter and a
\* smoothed corner of more than one facet has been generated.
C19_Witness ==
    /\ Succeeded /\ Len(verts) = 3
    /\ \A n \in Points : ApartFromPrev(n)
    /\ \E n \in Points :
           /\ isArc(verts[n]) /\ verts[n].facets < 0 - 1
           /\ 4 * verts[n].radius * verts[n].radius
                  = Norm2(Sub(verts[n].v, PrevOf(n).v)) * FP * FP
    /\ \E n \in Points :
           isSmoothed(verts[n]) /\ verts[n].facets > 1 /\ BelowBothEdges(n) /\ OpenCorner(n)
\* As stated: it is enough that the three points of a smoothed corner are not
\* collinear.
C19_NotCollinearSuffices ==
    (/\ Generated
     /\ \A n \in Points :
            /\ ApartFromPrev(n)
            /\ isArc(verts[n]) => ArcSpansChord(n)
            /\ isSmoothed(verts[n]) => BelowBothEdges(n) /\ NotCollinear(n))
        => err = NoErr

\* The block of control point n, from its cyclic neighbours.
Block(n) ==
    LET cp == verts[n]
    IN  IF isArc(cp)
        THEN appendArc2points(<<>>, PrevOf(n).v, cp.v, cp.radius, neg32(cp.facets)).dst
                 \o <<Pt(cp.v)>>
        ELSE IF isSmoothed(cp)
        THEN appendSmoothedCorner(<<>>, PrevOf(n).v, cp.v, NextOf(n).v, cp.radius, cp.facets).dst
        ELSE <<Pt(cp.v)>>
RECURSIVE Blocks(_)
\* The blocks of control points 1..n in index order.
Blocks(n) == IF n = 0 THEN <<>> ELSE Blocks(n - 1) \o Block(n)
\* An arc block: interior points of the arc from prev to the point, then the
\* point's own position.
ArcBlockShape(n) ==
    LET b == Block(n)
    IN  /\ b[Len(b)] = Pt(verts[n].v)
        /\ \A m \in 1..(Len(b) - 1) :
               b[m].k = "arc" /\ b[m].at = <<PrevOf(n).v, verts[n].v>>
\* C20. The walk visits the control points once each in index order and then
\* stops: while it runs, i points have been visited, the buffer holds their
\* blocks in index order after the caller's buffer, and prev is the point
\* before the next one, the last point for point 0; it ends, without a
\* failure, with all n points visited. A smoothed point's block is computed
\* from the next point, point 0 for the last; a sharp block is the point's
\* position, an arc block its interior points followed by its position.
C20_WalkOrder ==
    /\ pc = "loop" =>
           /\ i <= Len(verts)
           /\ buf = buf0 \o Blocks(i)
           /\ i < Len(verts) => prev = PrevOf(i + 1)
    /\ (Succeeded /\ Len(verts) >= 2) =>
           /\ i = Len(verts)
           /\ buf = buf0 \o Blocks(Len(verts))
    /\ pc # "idle" =>
           \A n \in Points : isArc(verts[n]) => ArcBlockShape(n)
\* Three points generated: the first an arc from the last point, the last a
\* fillet towards the first, both with interior vertices.
C20_Witness ==
    /\ Succeeded /\ Len(verts) = 3 /\ i = 3
    /\ isArc(verts[1]) /\ verts[1].facets < 0 - 1
    /\ isSmoothed(verts[3]) /\ verts[3].facets > 1
    /\ \E m \in DOMAIN Added : Added[m].k = "arc" /\ Added[m].at = <<verts[3].v, verts[1].v>>
    /\ \E m \in DOMAIN Added :
           Added[m].k = "fillet" /\ Added[m].at = <<verts[2].v, verts[3].v, verts[1].v>>

\* The last call through a handle was Chamfer with a positive size.
Chamfered == call.op = "Chamfer" /\ call.radius > 0
OnNeighbour(n) ==
    /\ isSmoothed(verts[n]) /\ verts[n].facets >= 2
    /\ verts[n].v = PrevOf(n).v \/ verts[n].v = NextOf(n).v
\* C22. A smoothed control point with facets >= 2 that has its previous or its
\* next neighbour (cyclically) on its own position fails with BadSmooth when
\* its radius is at most arcTol and with LargeSmoothRadius when its radius is
\* above arcTol (when no earlier point fails and the point is not reported as
\* a duplicate).
C22_CoincidentNeighbour ==
    Generated =>
        \A n \in Points :
            OnNeighbour(n) /\ FirstReached(n) /\ NoDuplicateAt(n) =>
                err = cpAtIdxErr(n - 1,
                                 IF verts[n].radius <= arcTolNum * FP
                                 THEN errBadSmooth ELSE errLargeSmoothRadius)
\* Both outcomes at index 1: a radius of arcTol on the position of the next
\* point is BadSmooth.
C22_Witness ==
    /\ Generated /\ Len(verts) = 3 /\ OnNeighbour(2)
    /\ verts[2].v = verts[3].v /\ verts[2].v # verts[1].v
    /\ verts[2].radius = arcTolNum * FP
    /\ err = cpAtIdxErr(1, errBadSmooth)
\* As stated: the coincidence is reported as BadSmooth for every radius.
C22_AlwaysBadSmooth ==
    Generated =>
        \A n \in Points :
            OnNeighbour(n) /\ FirstReached(n) /\ NoDuplicateAt(n) =>
                err = cpAtIdxErr(n - 1, errBadSmooth)

\* A smoothed corner of two facets or more on the line through its two
\* neighbours, which lie apart from it and from each other, its radius not
\* above the length of either edge.
CollinearCorner(n) ==
    /\ isSmoothed(verts[n]) /\ verts[n].facets >= 2
    /\ PrevOf(n).v # verts[n].v /\ NextOf(n).v # verts[n].v /\ PrevOf(n).v # NextOf(n).v
    /\ ~NotCollinear(n)
    /\ ~Longer(verts[n].radius, Sub(PrevOf(n).v, verts[n].v))
    /\ ~Longer(verts[n].radius, Sub(NextOf(n).v, verts[n].v))
\* C23. As stated: a smoothed control point with facets >= 2 whose radius does
\* not exceed either adjacent edge, collinear with its two distinct
\* neighbours, makes AppendVecs fail with BadSmooth at its index (when no
\* earlier point fails first), and nothing is appended for it.
C23_CollinearIsBadSmooth ==
    Generated =>
        \A n \in Points :
            CollinearCorner(n) /\ FirstReached(n) /\ NoDuplicateAt(n) =>
                /\ err = cpAtIdxErr(n - 1, errBadSmooth)
                /\ buf = buf0 \o Blocks(n - 1)

\* arcCenterFrom2points returned a center: no error, and a chord that is not
\* empty and not longer than the diameter.
ArcFound ==
    /\ call.op = "arcCenterFrom2points"
    /\ call.arc.err = "nil" /\ ~call.arc.nan
Chord == Sub(call.held[2], call.held[1])
\* C24. The sign of the radius selects the sweep direction: the sweep angle
\* has the sign of the radius, and the arc center lies on the left of the
\* directed chord prev->current for a positive radius and on its right for a
\* negative one, for every direction of the chord, the axes included.
C24_RadiusSignSelectsSide ==
    ArcFound =>
        IF call.radius > 0
        THEN call.arc.sweep > 0 /\ Cross(Chord, call.arc.perp) > 0
        ELSE call.arc.sweep < 0 /\ Cross(Chord, call.arc.perp) < 0
\* A clockwise arc over a chord that points down the y axis.
C24_Witness ==
    /\ ArcFound /\ call.radius < 0
    /\ Chord[1] = 0 /\ Chord[2] < 0
    /\ call.arc.sweep < 0 /\ Cross(Chord, call.arc.perp) < 0

\* The cross product of p2-p1 and p3-p2 of the triple CopyOrientation was
\* called with.
Turn == Cross(Sub(call.held[2], call.held[1]), Sub(call.held[3], call.held[2]))
\* C25. As stated: CopyOrientation(f, p1, p2, p3) returns f when the triple
\* turns counter-clockwise, -f when it turns clockwise and 0 when the three
\* points are collinear, for every f, positive, zero or negative.
C25_CopyOrientationSign ==
    call.op = "CopyOrientation" =>
        call.out = (IF Turn > 0 THEN call.f ELSE IF Turn < 0 THEN 0 - call.f ELSE 0)

\* A #shader line of two fields whose value is one of the known kinds, and one
\* whose value is not.
ValidPragma(line) == HasShaderPrefix(line) /\ Len(line) = 2 /\ PragmaShader(line[2]) >= 0
UnknownPragma(line) == HasShaderPrefix(line) /\ Len(line) = 2 /\ PragmaShader(line[2]) < 0
RECURSIVE SectionLines(_, _, _)
\* The lines of r that follow a valid pragma selecting section s, in input
\* order, cur being the section selected so far; #shader lines are left out.
SectionLines(r, cur, s) ==
    IF r = <<>> THEN <<>>
    ELSE IF ValidPragma(Head(r)) THEN SectionLines(Tail(r), PragmaShader(Head(r)[2]), s)
    ELSE IF HasShaderPrefix(Head(r)) THEN SectionLines(Tail(r), cur, s)
    ELSE (IF cur = s THEN <<Head(r)>> ELSE <<>>) \o SectionLines(Tail(r), cur, s)
EndsWith(b, q) == Len(q) <= Len(b) /\ SubSeq(b, Len(b) - Len(q) + 1, Len(b)) = q
HasUnknownPragma(r) == \E n \in DOMAIN r : UnknownPragma(r[n])
\* The Vertex, Fragment or Compute result for section s.
Result(s) ==
    CASE s = shaderVertex -> parse.ss.Vertex
      [] s = shaderFragment -> parse.ss.Fragment
      [] s = shaderCompute -> parse.ss.Compute
\* C26. As stated: a file with a pragma of unknown value returns an error
\* and the empty ShaderSource; in any other file every line below a valid
\* pragma that does not begin with #shader ends up, in input order, at the
\* end of the section the latest valid pragma selected, and the Vertex,
\* Fragment and Compute results are the include section, the section and one
\* NUL, or empty for a section without a line.
C26_LineByLine ==
    Parsed =>
        IF HasUnknownPragma(parse.file)
        THEN parse.err # "nil" /\ parse.ss = NoSource
        ELSE /\ \A s \in shaderVertex..shaderHeader :
                    EndsWith(parse.buffers[s], SectionLines(parse.file, shaderNone, s))
             /\ \A s \in shaderVertex..shaderCompute :
                    \/ SectionLines(parse.file, shaderNone, s) = <<>>
                    \/ Result(s) = parse.buffers[shaderHeader] \o parse.buffers[s] \o <<NUL>>

Sharp(cp) == cp.radius = 0 /\ cp.facets = 0
SmoothedMode(cp) == cp.radius > 0 /\ cp.facets > 0
ArcMode(cp) == cp.radius # 0 /\ cp.facets < 0
ModeCount(cp) ==
    (IF Sharp(cp) THEN 1 ELSE 0) + (IF SmoothedMode(cp) THEN 1 ELSE 0)
        + (IF ArcMode(cp) THEN 1 ELSE 0)
Surviving == 1..(IF Len(verts') < Len(verts) THEN Len(verts') ELSE Len(verts))
\* C27. Mode invariant: with facet arguments in the int32 range, every stored
\* control point is in exactly one of the modes sharp (radius = 0, facets = 0),
\* smoothed (radius > 0, facets > 0) and arc (radius # 0, facets < 0); isArc
\* and isSmoothed are never both true and agree with the mode; a point that is
\* not sharp is not sharp after any Smooth, Arc or Chamfer call, and Add* and
\* DropLast leave the mode of every point they keep.
C27_ModeInvariant ==
    /\ [](\A n \in 1..Len(verts) :
              /\ ModeCount(verts[n]) = 1
              /\ ~(isArc(verts[n]) /\ isSmoothed(verts[n]))
              /\ isSmoothed(verts[n]) = SmoothedMode(verts[n])
              /\ isArc(verts[n]) = ArcMode(verts[n]))
    /\ [][/\ call'.op \in {"Smooth", "Arc", "Chamfer"} =>
                \A n \in 1..Len(verts) : ~Sharp(verts[n]) => ~Sharp(verts'[n])
          /\ call'.op \in {"Add", "AddXY", "AddRelative", "DropLast"} =>
                \A n \in Surviving : verts'[n] = verts[n]]_vars
\* Arc with the largest int32 facet count has turned a smoothed point into an
\* arc point.
C27_Witness ==
    /\ call.op = "Arc" /\ Len(verts) = MaxPts
    /\ ArcMode(verts[call.h]) /\ verts[call.h].facets = 0 - MaxInt32
    /\ \E n \in 1..Len(verts) : SmoothedMode(verts[n])

\* The Go int n as a number, for an n that fits 32 bits.
Fits32(n) == n.hi = 0
\* C28. As stated: for every positive facets, the ones above 2^31-1 included,
\* Smooth with a radius > 0 leaves the point smoothed with facets stored, and
\* Arc with a radius # 0 leaves it an arc point with a stored count of that
\* magnitude.
C28_WideFacetsKeepMode ==
    /\ (call.op = "Smooth" /\ call.radius > 0 /\ Positive(call.facets)) =>
           /\ isSmoothed(verts[call.h]) /\ ~isArc(verts[call.h])
           /\ Fits32(call.facets) /\ verts[call.h].facets = call.facets.lo
    /\ (call.op = "Arc" /\ call.radius # 0 /\ Positive(call.facets)) =>
           /\ isArc(verts[call.h]) /\ ~isSmoothed(verts[call.h])
           /\ Fits32(call.facets) /\ Abs(verts[call.h].facets) = call.facets.lo

\* What the call recorded in call makes of control point cp.
SetBy(c, cp) ==
    CASE c.op = "Smooth" -> SmoothCP(cp, c.radius, c.facets)
      [] c.op = "Arc" -> ArcCP(cp, c.radius, c.facets)
      [] c.op = "Chamfer" -> ChamferCP(cp, c.radius)
ViaHandle == call.op \in {"Smooth", "Arc", "Chamfer"}
\* C29. As stated: a Smooth, Arc or Chamfer call through the handle of the
\* h-th Add changes, in the sequence AppendVecs walks, the control point that
\* Add call added if the builder still holds it, and no other control point.
C29_HandleDesignatesOwnPoint ==
    ViaHandle =>
        \A n \in 1..Len(verts) :
            verts[n] = IF verts[n].v = PosOf(call.h)
                       THEN SetBy(call, call.held[n])
                       ELSE call.held[n]

\* The fillet kernel is reached for point n and returns its vertices.
FilletSucceeds(n) ==
    /\ isSmoothed(verts[n]) /\ verts[n].facets >= 2
    /\ FirstReached(n) /\ ~Fails(n)
    /\ ~acosNaN(Sub(PrevOf(n).v, verts[n].v), Sub(NextOf(n).v, verts[n].v))
\* d of the corner at point n, times FP.
TangentDistAt(n) ==
    tangentDist(verts[n].radius,
                cosTheta(Sub(PrevOf(n).v, verts[n].v), Sub(NextOf(n).v, verts[n].v)))
\* C30. As stated: whenever the fillet kernel succeeds for a smoothed corner
\* with facets >= 2, the tangent distance d = r / tan(theta/2) is no greater
\* than the length of the edge to the previous neighbour and no greater than
\* the length of the edge to the next neighbour.
C30_TangentsOnEdges ==
    Generated =>
        \A n \in Points :
            FilletSucceeds(n) =>
                /\ TangentDistAt(n) * TangentDistAt(n)
                       <= Norm2(Sub(PrevOf(n).v, verts[n].v)) * FP * FP
                /\ TangentDistAt(n) * TangentDistAt(n)
                       <= Norm2(Sub(NextOf(n).v, verts[n].v)) * FP * FP

====
